---------------------------- MODULE Spec2Model ----------------------------
(***************************************************************************)
(* A model of the transportation subsystem of backend/server.py: the cost  *)
(* estimator, shipment creation at order placement, shipment status        *)
(* updates, delivery routes and the provider / vehicle soft deletes.       *)
(*                                                                         *)
(* Every collection is a sequence in insertion order (the order in which   *)
(* find() and find_one() scan it); a record's "id" is its position, which  *)
(* stands for the uuid4 drawn when it was inserted.  Money is counted in   *)
(* thousandths of a currency unit, so that round(cost, 2) acts.            *)
(* A handler is an "async def" without any await: it runs from its first   *)
(* line to its last without another request in between, and is one action. *)
(***************************************************************************)
EXTENDS Integers, Sequences, FiniteSets, TLC

VARIABLES
    users,          \* users_collection
    products,       \* products_collection
    cart,           \* cart_collection
    providers,      \* transportation_providers_collection
    vehicles,       \* vehicles_collection
    orders,         \* orders_collection
    shipments,      \* shipments_collection
    routes,         \* delivery_routes_collection
    now,            \* the reading of datetime.utcnow()
    resp,           \* the last request and its response
    everDelivered,  \* history: ids of the shipments whose status was ever set to "delivered"
    calls           \* the requests in flight, where handlers of several server processes interleave

vars == <<users, products, cart, providers, vehicles, orders, shipments, routes, now, resp, everDelivered, calls>>

-----------------------------------------------------------------------------
(* Bounds of the model. *)

MaxEstProviders == 3
MaxOrders == 2
MaxRoutes == 1
MaxRouteLen == 2
MaxCalls == 2
MaxProviders == 1
MaxVehicles == 1
MaxAdminOrders == 1
MaxRaceRoutes == 2
MaxClock == 3
MaxClockOrders == 1

-----------------------------------------------------------------------------
(* Values. *)

\* Python's None in an id or a timestamp field.
None == 0

\* An id no record carries (a uuid that was never issued).
NoSuchId == 0 - 1

MinDistance == 5
MaxDistance == 50
WeightThreshold == 5
WeightRate == 10
DefaultCost == 50
DefaultDays == 3
DefaultShipmentDays == 3

\* Thousandths of a currency unit.
Money(units) == units * 1000

Range(s) == {s[i] : i \in DOMAIN s}

RECURSIVE SeqsUpTo(_, _)
SeqsUpTo(S, n) ==
    IF n = 0 THEN {<<>>}
    ELSE LET shorter == SeqsUpTo(S, n - 1)
         IN  shorter \cup {Append(s, x) : s \in {t \in shorter : Len(t) = n - 1}, x \in S}

\* collection.find_one({"id": id}): the record or None.
\* The product each seeded order line names.
SeedProducts == <<[id |-> 1]>>

Exists(coll, id) == \E i \in DOMAIN coll : coll[i].id = id
FindById(coll, id) == coll[CHOOSE i \in DOMAIN coll : coll[i].id = id]

-----------------------------------------------------------------------------
(* The cost estimator. *)

\* random.randint(5, 50): both ends included.
Distances == MinDistance .. MaxDistance

\* round(cost, 2) on a cost in thousandths: to the nearest hundredth, a tie
\* to the even hundredth.
Round2(cost) ==
    LET q == cost \div 10
        r == cost % 10
    IN  IF r > 5 \/ (r = 5 /\ q % 2 = 1) THEN 10 * (q + 1) ELSE 10 * q

RECURSIVE SumQuantities(_)
\* sum(item.get('quantity', 1) for item in items)
SumQuantities(items) ==
    IF items = <<>> THEN 0 ELSE Head(items).quantity + SumQuantities(Tail(items))

\* The key of min(): base_cost + cost_per_km * estimated_distance.
DistanceCost(p, estimated_distance) == p.base_cost + p.cost_per_km * estimated_distance

RECURSIVE MinByLast(_, _, _)
MinByLast(list, best, estimated_distance) ==
    IF list = <<>> THEN best
    ELSE MinByLast(Tail(list),
                   IF DistanceCost(Head(list), estimated_distance) <= DistanceCost(best, estimated_distance)
                   THEN Head(list) ELSE best,
                   estimated_distance)

RECURSIVE MinBy(_, _, _)
\* Python's min(list, key=...): the first element with the least key.
MinBy(list, best, estimated_distance) ==
    IF list = <<>> THEN best
    ELSE MinBy(Tail(list),
               IF DistanceCost(Head(list), estimated_distance) < DistanceCost(best, estimated_distance)
               THEN Head(list) ELSE best,
               estimated_distance)

ActiveProvidersAll(provs) == provs

\* list(transportation_providers_collection.find({"active": True}))
ActiveProviders(provs) == SelectSeq(provs, LAMBDA p : p.active)

WeightSurchargeFromThreshold(total_weight) ==
    IF total_weight >= WeightThreshold
    THEN (total_weight - WeightThreshold + 1) * Money(WeightRate) ELSE 0

\* if total_weight > 5: cost += (total_weight - 5) * 10
WeightSurcharge(total_weight) ==
    IF total_weight > WeightThreshold
    THEN (total_weight - WeightThreshold) * Money(WeightRate) ELSE 0

\* The result when no provider is active; it has no distance field.
FallbackEstimate(estimated_distance) ==
    [provider_id |-> None, cost |-> Money(DefaultCost), estimated_days |-> DefaultDays,
     provider_name |-> "Standard Delivery"]

\* The local variable cost before round(): the selected provider's distance
\* cost plus the weight surcharge.
RawCost(provs, items, estimated_distance) ==
    LET list == ActiveProviders(provs)
        best_provider == MinBy(Tail(list), Head(list), estimated_distance)
    IN  DistanceCost(best_provider, estimated_distance) + WeightSurcharge(SumQuantities(items))

\* calculate_transportation_cost, with the distance it drew.
calculate_transportation_cost(provs, items, estimated_distance) ==
    LET list == ActiveProviders(provs)
    IN  IF list = <<>> THEN FallbackEstimate(estimated_distance)
        ELSE LET best_provider == MinBy(Tail(list), Head(list), estimated_distance)
             IN  [provider_id |-> best_provider.id,
                  cost |-> Round2(RawCost(provs, items, estimated_distance)),
                  estimated_days |-> best_provider.estimated_days,
                  provider_name |-> best_provider.name,
                  distance |-> estimated_distance]

-----------------------------------------------------------------------------
(* The estimator on its own: any list of providers, any cart, any draw. *)

\* Cost structures: the three of the specification's example (the seed's
\* SwiftDelivery Express, Standard Logistics and Premium Overnight) and one
\* that undercuts Standard Logistics on short distances only.
ProviderParams ==
    { [name |-> "A", base_cost |-> Money(80),  cost_per_km |-> 2500, estimated_days |-> 1],
      [name |-> "B", base_cost |-> Money(40),  cost_per_km |-> 1500, estimated_days |-> 3],
      [name |-> "C", base_cost |-> Money(150), cost_per_km |-> 5000, estimated_days |-> 1],
      [name |-> "D", base_cost |-> Money(20),  cost_per_km |-> 3504, estimated_days |-> 5] }

MkProvider(id, params, active) ==
    [id |-> id, name |-> params.name, base_cost |-> params.base_cost,
     cost_per_km |-> params.cost_per_km, estimated_days |-> params.estimated_days,
     active |-> active]

EstProviderLists ==
    { [i \in DOMAIN s |-> MkProvider(i, s[i][1], s[i][2])] :
        s \in SeqsUpTo(ProviderParams \X BOOLEAN, MaxEstProviders) }

\* Carts: empty, of weight 5 (the threshold), 6 and 8 (the specification's
\* example), the last two of two lines each.
ItemLists ==
    { <<>>,
      <<[quantity |-> 5]>>,
      <<[quantity |-> 2], [quantity |-> 4]>>,
      <<[quantity |-> 3], [quantity |-> 5]>> }

\* The inputs are drawn here: a provider list, a cart and the distance that
\* random.randint will return; resp holds the call until it is served.
InitEst ==
    /\ users = <<>>
    /\ products = SeedProducts
    /\ cart = <<>>
    /\ calls = <<>>
    /\ providers \in EstProviderLists
    /\ vehicles = <<>>
    /\ orders = <<>>
    /\ shipments = <<>>
    /\ routes = <<>>
    /\ now = 0
    /\ everDelivered = {}
    /\ resp \in [op : {"estimate_call"}, items : ItemLists, distance : Distances]

\* POST /api/cart/transportation-cost: the estimate for the items of a cart.
CalculateCartTransportationCost ==
    /\ resp.op = "estimate_call"
    /\ resp' = [op |-> "estimate", items |-> resp.items, distance |-> resp.distance,
                raw_cost |-> IF ActiveProviders(providers) = <<>> THEN None
                             ELSE RawCost(providers, resp.items, resp.distance),
                result |-> calculate_transportation_cost(providers, resp.items, resp.distance)]
    /\ UNCHANGED <<products, cart, users, calls, providers, vehicles, orders, shipments, routes, now, everDelivered>>

NextEst == CalculateCartTransportationCost

SpecEst == InitEst /\ [][NextEst]_vars

-----------------------------------------------------------------------------
(* Orders, shipments and routes. *)

\* Shipment(**shipment) declares vehicle_id: str, so building the response
\* from a shipment whose vehicle_id is None raises a validation error after
\* the writes are done: the request ends 500.
ShipmentResponseCode(shipment) == IF shipment.vehicle_id = None THEN 500 ELSE 200

\* vehicles_collection.find_one({"provider_id": provider_id, "active": True}):
\* the id of the first such vehicle, or None.
FirstActiveVehicle(vehs, provider_id) ==
    LET found == SelectSeq(vehs, LAMBDA v : v.provider_id = provider_id /\ v.active)
    IN  IF found = <<>> THEN None ELSE Head(found).id

\* provider["estimated_days"] if provider else 3
ProviderDays(provider_id) ==
    IF Exists(providers, provider_id)
    THEN FindById(providers, provider_id).estimated_days
    ELSE DefaultShipmentDays

create_shipment_for_first_order(shipment_id, order_id, provider_id, tracking_number) ==
    [id |-> shipment_id,
     order_id |-> 1,
     provider_id |-> provider_id,
     vehicle_id |-> FirstActiveVehicle(vehicles, provider_id),
     tracking_number |-> tracking_number,
     status |-> "pending",
     estimated_delivery |-> now + ProviderDays(provider_id),
     actual_delivery |-> None,
     delivery_notes |-> "",
     created_at |-> now]

create_shipment_assigned(shipment_id, order_id, provider_id, tracking_number) ==
    [id |-> shipment_id,
     order_id |-> order_id,
     provider_id |-> provider_id,
     vehicle_id |-> None,
     tracking_number |-> tracking_number,
     status |-> "assigned",
     estimated_delivery |-> now + ProviderDays(provider_id),
     actual_delivery |-> None,
     delivery_notes |-> "",
     created_at |-> now]

\* The shipment create_shipment_for_order inserts; tracking_number is the
\* suffix generate_tracking_number drew, which nothing compares with the
\* tracking numbers already in use.
create_shipment_for_order(shipment_id, order_id, provider_id, tracking_number) ==
    [id |-> shipment_id,
     order_id |-> order_id,
     provider_id |-> provider_id,
     vehicle_id |-> FirstActiveVehicle(vehicles, provider_id),
     tracking_number |-> tracking_number,
     status |-> "pending",
     estimated_delivery |-> now + ProviderDays(provider_id),
     actual_delivery |-> None,
     delivery_notes |-> "",
     created_at |-> now]

MissingProductsFirstOnly(items) ==
    items # <<>> /\ ~Exists(products, items[1].product_id)

\* The loop of create_order over the items: some product is not found.
MissingProducts(items) ==
    \E k \in DOMAIN items : ~Exists(products, items[k].product_id)

\* cart_collection.delete_many({"user_id": user_id})
ClearCart(crt, user_id) == SelectSeq(crt, LAMBDA line : line.user_id # user_id)

\* POST /api/orders by the user of the token: the status of the response,
\* and the orders, shipments and cart it leaves.
create_order(user_id, items, estimated_distance, tracking_number) ==
    LET transport_info == calculate_transportation_cost(providers, items, estimated_distance)
        order_id == Len(orders) + 1
        shipment_id == Len(shipments) + 1
    IN  IF ~Exists(users, user_id) \/ MissingProducts(items)
        THEN [code |-> 404, orders |-> orders, shipments |-> shipments, cart |-> cart]
        ELSE IF transport_info.provider_id # None
        THEN [code |-> 200,
              orders |-> Append(orders, [id |-> order_id, user_id |-> user_id,
                                         status |-> "confirmed"]),
              shipments |-> Append(shipments,
                                   create_shipment_for_order(shipment_id, order_id,
                                       transport_info.provider_id, tracking_number)),
              cart |-> ClearCart(cart, user_id)]
        ELSE [code |-> 200,
              orders |-> Append(orders, [id |-> order_id, user_id |-> user_id,
                                         status |-> "pending"]),
              shipments |-> shipments,
              cart |-> ClearCart(cart, user_id)]

SetShipmentStatusNoDelivery(shipment, status, delivery_notes, time) ==
    [shipment EXCEPT !.status = status, !.delivery_notes = delivery_notes]

SetShipmentStatusClearDelivery(shipment, status, delivery_notes, time) ==
    [shipment EXCEPT !.status = status,
                     !.delivery_notes = delivery_notes,
                     !.actual_delivery = IF status = "delivered" THEN time ELSE None]

SetShipmentStatusNewTracking(shipment, status, delivery_notes, time) ==
    [shipment EXCEPT !.status = status,
                     !.delivery_notes = delivery_notes,
                     !.tracking_number = IF status = "returned" THEN "RETURNED" ELSE @,
                     !.actual_delivery = IF status = "delivered" THEN time ELSE @]

\* The $set of update_shipment_status on one shipment.
SetShipmentStatus(shipment, status, delivery_notes, time) ==
    [shipment EXCEPT !.status = status,
                     !.delivery_notes = delivery_notes,
                     !.actual_delivery = IF status = "delivered" THEN time ELSE @]

SetOrderStatusNone(ords, order_id, status) == ords

\* orders_collection.update_one({"id": order_id}, {"$set": {"status": status}})
SetOrderStatus(ords, order_id, status) ==
    [i \in DOMAIN ords |->
        IF ords[i].id = order_id THEN [ords[i] EXCEPT !.status = status] ELSE ords[i]]

update_shipment_status_upsert(shipment_id, status, delivery_notes) ==
    [code |-> 200,
     orders |-> IF status = "delivered"
                THEN [i \in DOMAIN orders |-> [orders[i] EXCEPT !.status = "delivered"]]
                ELSE orders,
     shipments |-> IF Exists(shipments, shipment_id)
                   THEN [i \in DOMAIN shipments |->
                           IF shipments[i].id = shipment_id
                           THEN SetShipmentStatus(shipments[i], status, delivery_notes, now)
                           ELSE shipments[i]]
                   ELSE Append(shipments, [id |-> shipment_id, status |-> status,
                                           delivery_notes |-> delivery_notes])]

\* PUT /api/admin/transportation/shipments/{shipment_id}: the status of the
\* response, and the orders and shipments it leaves.
update_shipment_status(shipment_id, status, delivery_notes) ==
    IF Exists(shipments, shipment_id)
    THEN LET shipment == FindById(shipments, shipment_id)
             updated == SetShipmentStatus(shipment, status, delivery_notes, now)
         IN  [code |-> ShipmentResponseCode(updated),
              orders |-> IF status = "delivered"
                         THEN SetOrderStatus(orders, shipment.order_id, "delivered")
                         ELSE orders,
              shipments |-> [i \in DOMAIN shipments |->
                                IF shipments[i].id = shipment_id THEN updated ELSE shipments[i]]]
    ELSE [code |-> 404, orders |-> orders, shipments |-> shipments]

RECURSIVE ValidateShipmentsExistOnly(_, _)
ValidateShipmentsExistOnly(ships, shipment_ids) ==
    IF shipment_ids = <<>> THEN 200
    ELSE IF ~Exists(ships, Head(shipment_ids)) THEN 404
    ELSE ValidateShipmentsExistOnly(ships, Tail(shipment_ids))

RECURSIVE ValidateShipments(_, _)
\* The loop of create_delivery_route over the listed ids: the status of the
\* first failure (404 not found, 400 not available for routing), 200 if none.
ValidateShipments(ships, shipment_ids) ==
    IF shipment_ids = <<>> THEN 200
    ELSE IF ~Exists(ships, Head(shipment_ids)) THEN 404
    ELSE IF FindById(ships, Head(shipment_ids)).status \notin {"pending", "assigned"} THEN 400
    ELSE ValidateShipments(ships, Tail(shipment_ids))

AssignShipmentsStatusOnly(ships, shipment_ids, vehicle_id) ==
    [i \in DOMAIN ships |->
        IF ships[i].id \in Range(shipment_ids)
        THEN [ships[i] EXCEPT !.status = "assigned"]
        ELSE ships[i]]

\* shipments_collection.update_many({"id": {"$in": ids}},
\*     {"$set": {"status": "assigned", "vehicle_id": vehicle_id}})
AssignShipments(ships, shipment_ids, vehicle_id) ==
    [i \in DOMAIN ships |->
        IF ships[i].id \in Range(shipment_ids)
        THEN [ships[i] EXCEPT !.status = "assigned", !.vehicle_id = vehicle_id]
        ELSE ships[i]]

\* The route document create_delivery_route inserts.
NewRoute(route_id, vehicle_id, shipment_ids) ==
    [id |-> route_id,
     vehicle_id |-> vehicle_id,
     shipments |-> shipment_ids,
     route_status |-> "planned"]

\* POST /api/admin/transportation/routes: the status of the response, and
\* the routes and shipments it leaves.
create_delivery_route(vehicle_id, shipment_ids) ==
    LET code == IF ~Exists(vehicles, vehicle_id) THEN 404
                ELSE ValidateShipments(shipments, shipment_ids)
    IN  IF code = 200
        THEN [code |-> 200,
              routes |-> Append(routes, NewRoute(Len(routes) + 1, vehicle_id, shipment_ids)),
              shipments |-> AssignShipments(shipments, shipment_ids, vehicle_id)]
        ELSE [code |-> code, routes |-> routes, shipments |-> shipments]

StartShipmentsIfAssigned(ships, shipment_ids) ==
    [i \in DOMAIN ships |->
        IF ships[i].id \in Range(shipment_ids) /\ ships[i].status = "assigned"
        THEN [ships[i] EXCEPT !.status = "in_transit"]
        ELSE ships[i]]

\* shipments_collection.update_many({"id": {"$in": route["shipments"]}},
\*     {"$set": {"status": "in_transit"}})
StartShipments(ships, shipment_ids) ==
    [i \in DOMAIN ships |->
        IF ships[i].id \in Range(shipment_ids)
        THEN [ships[i] EXCEPT !.status = "in_transit"]
        ELSE ships[i]]

RouteStatuses == {"planned", "in_progress", "completed"}

update_route_status_lookup_first(route_id, status) ==
    IF ~Exists(routes, route_id)
    THEN [code |-> 404, routes |-> routes, shipments |-> shipments]
    ELSE IF status \notin RouteStatuses
    THEN [code |-> 400, routes |-> routes, shipments |-> shipments]
    ELSE [code |-> 200,
          routes |-> [i \in DOMAIN routes |->
                         IF routes[i].id = route_id
                         THEN [routes[i] EXCEPT !.route_status = status] ELSE routes[i]],
          shipments |-> shipments]

update_route_status_cascade_always(route_id, status) ==
    IF status \notin RouteStatuses
    THEN [code |-> 400, routes |-> routes, shipments |-> shipments]
    ELSE IF ~Exists(routes, route_id)
    THEN [code |-> 404, routes |-> routes, shipments |-> shipments]
    ELSE [code |-> 200,
          routes |-> [i \in DOMAIN routes |->
                         IF routes[i].id = route_id
                         THEN [routes[i] EXCEPT !.route_status = status] ELSE routes[i]],
          shipments |-> StartShipments(shipments, FindById(routes, route_id).shipments)]

\* PUT /api/admin/transportation/routes/{route_id}: the status of the
\* response, and the routes and shipments it leaves.
update_route_status(route_id, status) ==
    IF status \notin RouteStatuses
    THEN [code |-> 400, routes |-> routes, shipments |-> shipments]
    ELSE IF ~Exists(routes, route_id)
    THEN [code |-> 404, routes |-> routes, shipments |-> shipments]
    ELSE [code |-> 200,
          routes |-> [i \in DOMAIN routes |->
                         IF routes[i].id = route_id
                         THEN [routes[i] EXCEPT !.route_status = status] ELSE routes[i]],
          shipments |-> IF status = "in_progress"
                        THEN StartShipments(shipments, FindById(routes, route_id).shipments)
                        ELSE shipments]

DeactivateRemove(coll, id) == SelectSeq(coll, LAMBDA record : record.id # id)

\* update_one({"id": id}, {"$set": {"active": False}}) on a registry collection.
Deactivate(coll, id) ==
    [i \in DOMAIN coll |-> IF coll[i].id = id THEN [coll[i] EXCEPT !.active = FALSE] ELSE coll[i]]

-----------------------------------------------------------------------------
(* The requests as steps: each handler runs whole, and resp is its answer. *)

CreateOrder(user_id, items, estimated_distance, tracking_number) ==
    LET out == create_order(user_id, items, estimated_distance, tracking_number)
    IN  /\ Len(orders) < MaxOrders
        /\ resp' = [op |-> "create_order", code |-> out.code]
        /\ orders' = out.orders
        /\ shipments' = out.shipments
        /\ cart' = out.cart
        /\ UNCHANGED <<products, users, calls, providers, vehicles, routes, now, everDelivered>>

UpdateShipmentStatus(shipment_id, status, delivery_notes) ==
    LET out == update_shipment_status(shipment_id, status, delivery_notes)
    IN  /\ resp' = [op |-> "update_shipment_status", code |-> out.code]
        /\ orders' = out.orders
        /\ shipments' = out.shipments
        /\ everDelivered' = IF Exists(shipments, shipment_id) /\ status = "delivered"
                            THEN everDelivered \cup {shipment_id} ELSE everDelivered
        /\ UNCHANGED <<products, cart, users, calls, providers, vehicles, routes, now>>

CreateDeliveryRoute(vehicle_id, shipment_ids) ==
    LET out == create_delivery_route(vehicle_id, shipment_ids)
    IN  /\ out.code = 200 => Len(routes) < MaxRoutes
        /\ resp' = [op |-> "create_delivery_route", code |-> out.code]
        /\ routes' = out.routes
        /\ shipments' = out.shipments
        /\ UNCHANGED <<products, cart, users, calls, providers, vehicles, orders, now, everDelivered>>

UpdateRouteStatus(route_id, status) ==
    LET out == update_route_status(route_id, status)
    IN  /\ resp' = [op |-> "update_route_status", code |-> out.code]
        /\ routes' = out.routes
        /\ shipments' = out.shipments
        /\ UNCHANGED <<products, cart, users, calls, providers, vehicles, orders, now, everDelivered>>

\* DELETE /api/admin/transportation/providers/{provider_id}.
delete_transportation_provider(provider_id) ==
    /\ resp' = [op |-> "delete_transportation_provider",
                code |-> IF Exists(providers, provider_id) THEN 200 ELSE 404]
    /\ providers' = Deactivate(providers, provider_id)
    /\ UNCHANGED <<products, cart, users, calls, vehicles, orders, shipments, routes, now, everDelivered>>

\* DELETE /api/admin/transportation/vehicles/{vehicle_id}.
delete_vehicle(vehicle_id) ==
    /\ resp' = [op |-> "delete_vehicle",
                code |-> IF Exists(vehicles, vehicle_id) THEN 200 ELSE 404]
    /\ vehicles' = Deactivate(vehicles, vehicle_id)
    /\ UNCHANGED <<products, cart, users, calls, providers, orders, shipments, routes, now, everDelivered>>

-----------------------------------------------------------------------------
(* The requests the model sends. *)

Ids(coll) == {coll[i].id : i \in DOMAIN coll}

\* An id in a request: one of a record, or one that resolves to nothing.
IdInputs(coll) == Ids(coll) \cup {NoSuchId}

\* The statuses an administrator writes: one a route accepts, "delivered",
\* and one that is neither.
StatusInputs == {"assigned", "delivered", "returned"}

\* ShipmentUpdate.delivery_notes is left at its default.
NotesInputs == {""}

RouteStatusInputs == RouteStatuses \cup {"cancelled"}

\* "TRK" and the suffix random.choices drew, of 36^8 cut down to three.
TrackingPool == <<"TRKAAAAAAAA", "TRKAAAAAAAB", "TRKAAAAAAAC">>

TrackingNumbers == Range(TrackingPool)

\* A draw that meets no tracking number in use: the next of the pool.
FreshTrackingNumber == TrackingPool[(Len(shipments) % Len(TrackingPool)) + 1]

OrderItems == <<[product_id |-> 1, quantity |-> 1]>>

\* The administrator and the first customer of scripts/seed_database.py.
SeedUsers == <<[id |-> 1, role |-> "admin"], [id |-> 2, role |-> "customer"]>>

\* The customer who places the orders of Spec.
Customer == SeedUsers[2].id

\* A registry an administrator has set up: one provider with one vehicle.
Init ==
    /\ users = SeedUsers
    /\ products = SeedProducts
    /\ cart = <<>>
    /\ calls = <<>>
    /\ providers = <<MkProvider(1, CHOOSE p \in ProviderParams : p.name = "B", TRUE)>>
    /\ vehicles = <<[id |-> 1, provider_id |-> 1, active |-> TRUE]>>
    /\ orders = <<>>
    /\ shipments = <<>>
    /\ routes = <<>>
    /\ now = 1
    /\ everDelivered = {}
    /\ resp = [op |-> "none", code |-> 200]

\* Spec follows the draws of generate_tracking_number that collide with no
\* tracking number in use; SpecTrack follows every draw.
Next ==
    \/ \E d \in {MinDistance, MaxDistance} : CreateOrder(Customer, OrderItems, d, FreshTrackingNumber)
    \/ \E id \in IdInputs(shipments), s \in StatusInputs, n \in NotesInputs :
          UpdateShipmentStatus(id, s, n)
    \/ \E v \in IdInputs(vehicles), ids \in SeqsUpTo(IdInputs(shipments), MaxRouteLen) :
          CreateDeliveryRoute(v, ids)
    \/ \E id \in IdInputs(routes), s \in RouteStatusInputs : UpdateRouteStatus(id, s)
    \/ \E id \in IdInputs(providers) : delete_transportation_provider(id)
    \/ \E id \in IdInputs(vehicles) : delete_vehicle(id)

Spec == Init /\ [][Next]_vars

\* Order creation alone, with every draw of the tracking number.
NextTrack ==
    \/ \E d \in {MinDistance, MaxDistance}, t \in TrackingNumbers : CreateOrder(Customer, OrderItems, d, t)
    \/ \E id \in IdInputs(providers) : delete_transportation_provider(id)
    \/ \E id \in IdInputs(vehicles) : delete_vehicle(id)

SpecTrack == Init /\ [][NextTrack]_vars

-----------------------------------------------------------------------------
(* The clock: datetime.utcnow() reads later at a later request. *)

Tick ==
    /\ now < MaxClock
    /\ now' = now + 1
    /\ UNCHANGED <<products, cart, users, providers, vehicles, orders, shipments, routes,
                   resp, everDelivered, calls>>

\* One order, its shipment's status updates and its route, as time passes.
NextClock ==
    \/ Tick
    \/ /\ Len(orders) < MaxClockOrders
       /\ CreateOrder(Customer, OrderItems, MinDistance, FreshTrackingNumber)
    \/ \E id \in Ids(shipments), s \in StatusInputs, n \in NotesInputs :
          UpdateShipmentStatus(id, s, n)
    \/ \E v \in Ids(vehicles), ids \in SeqsUpTo(Ids(shipments), 1) :
          CreateDeliveryRoute(v, ids)
    \/ \E id \in Ids(routes), s \in RouteStatuses : UpdateRouteStatus(id, s)

SpecClock == Init /\ [][NextClock]_vars

-----------------------------------------------------------------------------
(* Administration: every handler under /api/admin depends on               *)
(* get_admin_user, which runs before the handler's first line.             *)

get_admin_user_any(user_id) ==
    IF \E i \in DOMAIN users : users[i].id = user_id THEN 200 ELSE 403

\* get_admin_user for the user of a valid token: 403 unless the user record
\* exists and its role is "admin".
get_admin_user(user_id) ==
    IF \E i \in DOMAIN users : users[i].id = user_id /\ users[i].role = "admin"
    THEN 200 ELSE 403

\* raise HTTPException(status_code=403, detail="Admin access required")
Forbidden(op) ==
    /\ resp' = [op |-> op, code |-> 403]
    /\ UNCHANGED <<products, cart, users, providers, vehicles, orders, shipments, routes, now,
                   everDelivered, calls>>

\* A handler declared with admin_id: str = Depends(get_admin_user).
AdminOnly(user_id, op, Handler) ==
    IF get_admin_user(user_id) = 403 THEN Forbidden(op) ELSE Handler

\* A GET handler: it answers and writes nothing.
ReadOnly(op, code) ==
    /\ resp' = [op |-> op, code |-> code]
    /\ UNCHANGED <<products, cart, users, providers, vehicles, orders, shipments, routes, now,
                   everDelivered, calls>>

\* GET /api/admin/transportation/shipments builds Shipment(**shipment) for
\* every shipment.
get_all_shipments ==
    ReadOnly("get_all_shipments",
             IF \E i \in DOMAIN shipments : ShipmentResponseCode(shipments[i]) = 500
             THEN 500 ELSE 200)

\* PUT /api/admin/orders/{order_id}
update_order_status(order_id, status) ==
    /\ resp' = [op |-> "update_order_status",
                code |-> IF Exists(orders, order_id) THEN 200 ELSE 404]
    /\ orders' = SetOrderStatus(orders, order_id, status)
    /\ UNCHANGED <<products, cart, users, calls, providers, vehicles, shipments, routes, now, everDelivered>>

\* POST /api/admin/transportation/providers
create_transportation_provider(params) ==
    /\ Len(providers) < MaxProviders
    /\ resp' = [op |-> "create_transportation_provider", code |-> 200]
    /\ providers' = Append(providers, MkProvider(Len(providers) + 1, params, TRUE))
    /\ UNCHANGED <<products, cart, users, calls, vehicles, orders, shipments, routes, now, everDelivered>>

\* PUT /api/admin/transportation/providers/{provider_id}: the $set leaves
\* id and active alone.
update_transportation_provider(provider_id, params) ==
    /\ resp' = [op |-> "update_transportation_provider",
                code |-> IF Exists(providers, provider_id) THEN 200 ELSE 404]
    /\ providers' = [i \in DOMAIN providers |->
                        IF providers[i].id = provider_id
                        THEN MkProvider(providers[i].id, params, providers[i].active)
                        ELSE providers[i]]
    /\ UNCHANGED <<products, cart, users, calls, vehicles, orders, shipments, routes, now, everDelivered>>

\* POST /api/admin/transportation/vehicles: 404 unless the provider exists.
create_vehicle(provider_id) ==
    IF Exists(providers, provider_id)
    THEN /\ Len(vehicles) < MaxVehicles
         /\ resp' = [op |-> "create_vehicle", code |-> 200]
         /\ vehicles' = Append(vehicles, [id |-> Len(vehicles) + 1,
                                          provider_id |-> provider_id,
                                          active |-> TRUE])
         /\ UNCHANGED <<products, cart, users, calls, providers, orders, shipments, routes, now, everDelivered>>
    ELSE /\ resp' = [op |-> "create_vehicle", code |-> 404]
         /\ UNCHANGED <<products, cart, users, calls, providers, vehicles, orders, shipments, routes, now,
                        everDelivered>>

\* PUT /api/admin/transportation/vehicles/{vehicle_id}: the $set writes the
\* provider_id of the request as it is; 404 if the vehicle does not exist.
update_vehicle(vehicle_id, provider_id) ==
    /\ resp' = [op |-> "update_vehicle",
                code |-> IF Exists(vehicles, vehicle_id) THEN 200 ELSE 404]
    /\ vehicles' = [i \in DOMAIN vehicles |->
                       IF vehicles[i].id = vehicle_id
                       THEN [vehicles[i] EXCEPT !.provider_id = provider_id]
                       ELSE vehicles[i]]
    /\ UNCHANGED <<products, cart, users, calls, providers, orders, shipments, routes, now, everDelivered>>

\* The callers: the user of a valid token, or of a token whose user record
\* is gone.
Callers == IdInputs(users)

NewProviderParams == {p \in ProviderParams : p.name = "B"}

\* The requests user_id sends to the handlers under /api/admin.
AdminRequests(user_id) ==
    \/ AdminOnly(user_id, "get_all_orders", ReadOnly("get_all_orders", 200))
    \/ \E id \in IdInputs(orders) :
          AdminOnly(user_id, "update_order_status", update_order_status(id, "shipped"))
    \/ AdminOnly(user_id, "get_admin_stats", ReadOnly("get_admin_stats", 200))
    \/ AdminOnly(user_id, "get_transportation_providers",
                 ReadOnly("get_transportation_providers", 200))
    \/ \E params \in NewProviderParams :
          AdminOnly(user_id, "create_transportation_provider",
                    create_transportation_provider(params))
    \/ \E id \in IdInputs(providers), params \in NewProviderParams :
          AdminOnly(user_id, "update_transportation_provider",
                    update_transportation_provider(id, params))
    \/ \E id \in IdInputs(providers) :
          AdminOnly(user_id, "delete_transportation_provider",
                    delete_transportation_provider(id))
    \/ AdminOnly(user_id, "get_vehicles", ReadOnly("get_vehicles", 200))
    \/ \E p \in IdInputs(providers) :
          AdminOnly(user_id, "create_vehicle", create_vehicle(p))
    \/ \E id \in IdInputs(vehicles), p \in IdInputs(providers) :
          AdminOnly(user_id, "update_vehicle", update_vehicle(id, p))
    \/ \E id \in IdInputs(vehicles) :
          AdminOnly(user_id, "delete_vehicle", delete_vehicle(id))
    \/ AdminOnly(user_id, "get_all_shipments", get_all_shipments)
    \/ \E id \in IdInputs(shipments), n \in NotesInputs :
          AdminOnly(user_id, "update_shipment_status",
                    UpdateShipmentStatus(id, "delivered", n))
    \/ AdminOnly(user_id, "get_delivery_routes", ReadOnly("get_delivery_routes", 200))
    \/ \E v \in IdInputs(vehicles), ids \in SeqsUpTo(Ids(shipments), 1) :
          AdminOnly(user_id, "create_delivery_route", CreateDeliveryRoute(v, ids))
    \/ \E id \in IdInputs(routes) :
          AdminOnly(user_id, "update_route_status", UpdateRouteStatus(id, "in_progress"))

\* The database before the administrator has registered anything.
InitAdmin ==
    /\ users = SeedUsers
    /\ products = SeedProducts
    /\ cart = <<>>
    /\ calls = <<>>
    /\ providers = <<>>
    /\ vehicles = <<>>
    /\ orders = <<>>
    /\ shipments = <<>>
    /\ routes = <<>>
    /\ now = 1
    /\ everDelivered = {}
    /\ resp = [op |-> "none", code |-> 200]

NextAdmin ==
    \/ /\ Len(orders) < MaxAdminOrders
       /\ CreateOrder(Customer, OrderItems, MinDistance, FreshTrackingNumber)
    \/ \E user_id \in Callers : AdminRequests(user_id)

SpecAdmin == InitAdmin /\ [][NextAdmin]_vars

-----------------------------------------------------------------------------
(* What a customer reads: tracking, and the shipment of an order. *)

\* The None in the place of a document: a document without an id.
NoDocument == [id |-> None]

\* find_one({"id": id}) as the handlers use its result: the document, or None.
Lookup(coll, id) == IF Exists(coll, id) THEN FindById(coll, id) ELSE NoDocument

\* GET /api/shipments/track/{tracking_number}: find_one returns the first
\* shipment with the tracking number; Shipment(**shipment) raises for a
\* shipment without a vehicle, and the request ends 500 with no body.
track_shipment(tracking_number) ==
    LET found == SelectSeq(shipments, LAMBDA sh : sh.tracking_number = tracking_number)
    IN  IF found = <<>>
        THEN [code |-> 404, shipment |-> NoDocument, order |-> NoDocument, provider |-> NoDocument,
              vehicle |-> NoDocument]
        ELSE LET shipment == Head(found)
             IN  IF ShipmentResponseCode(shipment) = 500
                 THEN [code |-> 500, shipment |-> NoDocument, order |-> NoDocument, provider |-> NoDocument,
                       vehicle |-> NoDocument]
                 ELSE [code |-> 200,
                       shipment |-> shipment,
                       order |-> Lookup(orders, shipment.order_id),
                       provider |-> Lookup(providers, shipment.provider_id),
                       vehicle |-> IF shipment.vehicle_id # None
                                   THEN Lookup(vehicles, shipment.vehicle_id) ELSE NoDocument]

OrderNotFound ==
    [code |-> 404, detail |-> "Order not found", shipment |-> NoDocument, provider |-> NoDocument,
     vehicle |-> NoDocument]

get_order_shipment_any_user(order_id, user_id) ==
    LET found == SelectSeq(shipments, LAMBDA sh : sh.order_id = order_id)
    IN  IF found = <<>> THEN OrderNotFound
        ELSE [code |-> 200, detail |-> "",
              shipment |-> Head(found),
              provider |-> Lookup(providers, Head(found).provider_id),
              vehicle |-> NoDocument]

\* GET /api/orders/{order_id}/shipment by the user of the token.
get_order_shipment(order_id, user_id) ==
    LET mine == SelectSeq(orders, LAMBDA o : o.id = order_id /\ o.user_id = user_id)
        found == SelectSeq(shipments, LAMBDA sh : sh.order_id = order_id)
    IN  IF mine = <<>> THEN OrderNotFound
        ELSE IF found = <<>>
        THEN [code |-> 404, detail |-> "Shipment not found", shipment |-> NoDocument,
              provider |-> NoDocument, vehicle |-> NoDocument]
        ELSE IF ShipmentResponseCode(Head(found)) = 500
        THEN [code |-> 500, detail |-> "", shipment |-> NoDocument, provider |-> NoDocument,
              vehicle |-> NoDocument]
        ELSE [code |-> 200, detail |-> "",
              shipment |-> Head(found),
              provider |-> Lookup(providers, Head(found).provider_id),
              vehicle |-> IF Head(found).vehicle_id # None
                          THEN Lookup(vehicles, Head(found).vehicle_id) ELSE NoDocument]

TrackShipment(tracking_number) ==
    /\ resp' = [op |-> "track_shipment", code |-> track_shipment(tracking_number).code]
    /\ UNCHANGED <<products, cart, users, providers, vehicles, orders, shipments, routes, now,
                   everDelivered, calls>>

\* resp keeps who asked for which order.
GetOrderShipment(order_id, user_id) ==
    /\ resp' = [op |-> "get_order_shipment",
                code |-> get_order_shipment(order_id, user_id).code,
                order_id |-> order_id, user_id |-> user_id]
    /\ UNCHANGED <<products, cart, users, providers, vehicles, orders, shipments, routes, now,
                   everDelivered, calls>>

\* Orders of both users, the soft deletes that leave a provider without an
\* active vehicle or the shop without an active provider, and the reads.
NextCustomer ==
    \/ \E u \in Callers : CreateOrder(u, OrderItems, MinDistance, FreshTrackingNumber)
    \/ \E id \in IdInputs(providers) : delete_transportation_provider(id)
    \/ \E id \in IdInputs(vehicles) : delete_vehicle(id)
    \/ \E t \in TrackingNumbers : TrackShipment(t)
    \/ \E o \in IdInputs(orders), u \in Callers : GetOrderShipment(o, u)

SpecCustomer == Init /\ [][NextCustomer]_vars

-----------------------------------------------------------------------------
(* Handlers of several server processes on one database.  Within one       *)
(* process a handler runs whole; a second process (uvicorn workers, a      *)
(* second instance) runs its handlers in between the database operations   *)
(* of the first.  Here create_order and create_delivery_route advance one  *)
(* database write at a time; calls[c] holds what call c has read so far.   *)

Idle == [op |-> "idle"]

InFlight(op) == Cardinality({c \in DOMAIN calls : calls[c].op = op})

\* create_delivery_route up to the end of its validation loop.
RouteValidate(c, vehicle_id, shipment_ids) ==
    /\ calls[c] = Idle
    /\ Len(routes) + InFlight("create_delivery_route") < MaxRaceRoutes
    /\ LET code == IF ~Exists(vehicles, vehicle_id) THEN 404
                   ELSE ValidateShipments(shipments, shipment_ids)
       IN  IF code = 200
           THEN /\ calls' = [calls EXCEPT ![c] = [op |-> "create_delivery_route",
                                                  pc |-> "insert_one",
                                                  vehicle_id |-> vehicle_id,
                                                  shipment_ids |-> shipment_ids]]
                /\ UNCHANGED resp
           ELSE /\ resp' = [op |-> "create_delivery_route", code |-> code]
                /\ UNCHANGED calls
    /\ UNCHANGED <<products, cart, users, providers, vehicles, orders, shipments, routes, now, everDelivered>>

\* delivery_routes_collection.insert_one(route)
RouteInsert(c) ==
    /\ calls[c].op = "create_delivery_route"
    /\ calls[c].pc = "insert_one"
    /\ routes' = Append(routes, NewRoute(Len(routes) + 1, calls[c].vehicle_id,
                                         calls[c].shipment_ids))
    /\ calls' = [calls EXCEPT ![c].pc = "update_many"]
    /\ UNCHANGED <<products, cart, users, providers, vehicles, orders, shipments, now, resp, everDelivered>>

\* shipments_collection.update_many(...) and the response.
RouteUpdateMany(c) ==
    /\ calls[c].op = "create_delivery_route"
    /\ calls[c].pc = "update_many"
    /\ shipments' = AssignShipments(shipments, calls[c].shipment_ids, calls[c].vehicle_id)
    /\ resp' = [op |-> "create_delivery_route", code |-> 200]
    /\ calls' = [calls EXCEPT ![c] = Idle]
    /\ UNCHANGED <<products, cart, users, providers, vehicles, orders, routes, now, everDelivered>>

\* create_order up to the estimate: transport_info is what it keeps.
OrderEstimate(c, user_id, items, estimated_distance) ==
    /\ calls[c] = Idle
    /\ Len(orders) + InFlight("create_order") < MaxOrders
    /\ IF Exists(users, user_id) /\ ~MissingProducts(items)
       THEN /\ calls' = [calls EXCEPT ![c] =
                           [op |-> "create_order",
                            pc |-> "insert_one",
                            user_id |-> user_id,
                            order_id |-> None,
                            provider_id |->
                                calculate_transportation_cost(providers, items,
                                    estimated_distance).provider_id]]
            /\ UNCHANGED resp
       ELSE /\ resp' = [op |-> "create_order", code |-> 404]
            /\ UNCHANGED calls
    /\ UNCHANGED <<products, cart, users, providers, vehicles, orders, shipments, routes, now, everDelivered>>

\* orders_collection.insert_one(order); if no provider was selected, the
\* delete_many of the cart and the response.
OrderInsert(c) ==
    /\ calls[c].op = "create_order"
    /\ calls[c].pc = "insert_one"
    /\ orders' = Append(orders, [id |-> Len(orders) + 1, user_id |-> calls[c].user_id,
                                 status |-> "pending"])
    /\ IF calls[c].provider_id # None
       THEN /\ calls' = [calls EXCEPT ![c].pc = "create_shipment",
                                      ![c].order_id = Len(orders) + 1]
            /\ UNCHANGED resp
            /\ UNCHANGED cart
       ELSE /\ calls' = [calls EXCEPT ![c] = Idle]
            /\ resp' = [op |-> "create_order", code |-> 200]
            /\ cart' = ClearCart(cart, calls[c].user_id)
    /\ UNCHANGED <<products, users, providers, vehicles, shipments, routes, now, everDelivered>>

\* create_shipment_for_order(order_id, transport_info["provider_id"])
OrderCreateShipment(c, tracking_number) ==
    /\ calls[c].op = "create_order"
    /\ calls[c].pc = "create_shipment"
    /\ shipments' = Append(shipments,
                           create_shipment_for_order(Len(shipments) + 1, calls[c].order_id,
                                                     calls[c].provider_id, tracking_number))
    /\ calls' = [calls EXCEPT ![c].pc = "update_one"]
    /\ UNCHANGED <<products, cart, users, providers, vehicles, orders, routes, now, resp, everDelivered>>

\* orders_collection.update_one(..., {"$set": {"status": "confirmed"}}), the
\* delete_many of the cart and the response.
OrderConfirm(c) ==
    /\ calls[c].op = "create_order"
    /\ calls[c].pc = "update_one"
    /\ orders' = SetOrderStatus(orders, calls[c].order_id, "confirmed")
    /\ resp' = [op |-> "create_order", code |-> 200]
    /\ calls' = [calls EXCEPT ![c] = Idle]
    /\ cart' = ClearCart(cart, calls[c].user_id)
    /\ UNCHANGED <<products, users, providers, vehicles, shipments, routes, now, everDelivered>>

InitRace ==
    /\ users = SeedUsers
    /\ products = SeedProducts
    /\ cart = <<>>
    /\ calls = [c \in 1 .. MaxCalls |-> Idle]
    /\ providers = <<MkProvider(1, CHOOSE p \in ProviderParams : p.name = "B", TRUE)>>
    /\ vehicles = <<[id |-> 1, provider_id |-> 1, active |-> TRUE]>>
    /\ orders = <<>>
    /\ shipments = <<>>
    /\ routes = <<>>
    /\ now = 1
    /\ everDelivered = {}
    /\ resp = [op |-> "none", code |-> 200]

NextRace ==
    \/ \E c \in DOMAIN calls, v \in IdInputs(vehicles),
          ids \in SeqsUpTo(IdInputs(shipments), MaxRouteLen) : RouteValidate(c, v, ids)
    \/ \E c \in DOMAIN calls : RouteInsert(c)
    \/ \E c \in DOMAIN calls : RouteUpdateMany(c)
    \/ \E c \in DOMAIN calls, u \in IdInputs(users) : OrderEstimate(c, u, OrderItems, MinDistance)
    \/ \E c \in DOMAIN calls : OrderInsert(c)
    \/ \E c \in DOMAIN calls : OrderCreateShipment(c, FreshTrackingNumber)
    \/ \E c \in DOMAIN calls : OrderConfirm(c)
    \/ \E id \in IdInputs(providers) : delete_transportation_provider(id)

SpecRace == InitRace /\ [][NextRace]_vars

\* create_order one database write at a time, beside update_shipment_status
\* requests on the shipments it inserts.
NextCascade ==
    \/ \E c \in DOMAIN calls, u \in IdInputs(users) : OrderEstimate(c, u, OrderItems, MinDistance)
    \/ \E c \in DOMAIN calls : OrderInsert(c)
    \/ \E c \in DOMAIN calls : OrderCreateShipment(c, FreshTrackingNumber)
    \/ \E c \in DOMAIN calls : OrderConfirm(c)
    \/ \E id \in IdInputs(shipments), st \in StatusInputs, n \in NotesInputs :
          UpdateShipmentStatus(id, st, n)

SpecCascade == InitRace /\ [][NextCascade]_vars

-----------------------------------------------------------------------------
(* The cart. A line of cart_collection is a user_id, a product_id and a
   quantity; find_one and update_one take the first line that matches. *)

MaxCartQuantity == 4

CartQuantities == {1, 2}

\* An order for a product of the catalogue and for one that is not in it.
MissingItems == <<[product_id |-> 1, quantity |-> 1], [product_id |-> NoSuchId, quantity |-> 1]>>

\* The positions of the lines cart_collection.find({"user_id": ..., "product_id": ...}) matches.
CartLines(crt, user_id, product_id) ==
    {i \in DOMAIN crt : crt[i].user_id = user_id /\ crt[i].product_id = product_id}

\* The quantity of the line find_one returns, 0 if there is none.
CartQuantity(crt, user_id, product_id) ==
    LET lines == CartLines(crt, user_id, product_id)
    IN  IF lines = {} THEN 0
        ELSE crt[CHOOSE i \in lines : \A j \in lines : i <= j].quantity

RECURSIVE TotalQuantity(_)
TotalQuantity(crt) == IF crt = <<>> THEN 0 ELSE Head(crt).quantity + TotalQuantity(Tail(crt))

\* cart_collection.update_one({"user_id": ..., "product_id": ...},
\*     {"$inc": {"quantity": quantity}})
Increment(crt, user_id, product_id, quantity) ==
    LET lines == CartLines(crt, user_id, product_id)
    IN  [i \in DOMAIN crt |->
            IF i \in lines /\ \A j \in lines : i <= j
            THEN [crt[i] EXCEPT !.quantity = @ + quantity] ELSE crt[i]]

\* cart_collection.insert_one({"user_id": ..., "product_id": ..., "quantity": ...})
InsertLine(crt, user_id, product_id, quantity) ==
    Append(crt, [user_id |-> user_id, product_id |-> product_id, quantity |-> quantity])

\* POST /api/cart by the user of the token, run whole: the status of the
\* response and the cart it leaves.
add_to_cart(user_id, product_id, quantity) ==
    IF ~Exists(products, product_id)
    THEN [code |-> 404, cart |-> cart]
    ELSE [code |-> 200,
          cart |-> IF CartLines(cart, user_id, product_id) # {}
                   THEN Increment(cart, user_id, product_id, quantity)
                   ELSE InsertLine(cart, user_id, product_id, quantity)]

AddToCart(user_id, product_id, quantity) ==
    LET out == add_to_cart(user_id, product_id, quantity)
    IN  /\ TotalQuantity(cart) + quantity <= MaxCartQuantity
        /\ resp' = [op |-> "add_to_cart", code |-> out.code]
        /\ cart' = out.cart
        /\ UNCHANGED <<products, users, calls, providers, vehicles, orders, shipments, routes, now,
                       everDelivered>>

RECURSIVE PendingQuantityUpTo(_)
PendingQuantityUpTo(c) ==
    IF c = 0 THEN 0
    ELSE (IF calls[c].op = "add_to_cart" THEN calls[c].quantity ELSE 0) + PendingQuantityUpTo(c - 1)

\* The quantities the requests in flight are about to add.
PendingQuantity == PendingQuantityUpTo(Len(calls))

\* add_to_cart up to its find_one of the existing line.
CartFind(c, user_id, product_id, quantity) ==
    /\ calls[c] = Idle
    /\ TotalQuantity(cart) + PendingQuantity + quantity <= MaxCartQuantity
    /\ IF Exists(products, product_id)
       THEN /\ calls' = [calls EXCEPT ![c] =
                           [op |-> "add_to_cart",
                            user_id |-> user_id,
                            product_id |-> product_id,
                            quantity |-> quantity,
                            existing_item |-> CartLines(cart, user_id, product_id) # {}]]
            /\ UNCHANGED resp
       ELSE /\ resp' = [op |-> "add_to_cart", code |-> 404]
            /\ UNCHANGED calls
    /\ UNCHANGED <<products, cart, users, providers, vehicles, orders, shipments, routes, now,
                   everDelivered>>

\* The update_one or the insert_one that existing_item selects, and the
\* response.
CartWrite(c) ==
    /\ calls[c].op = "add_to_cart"
    /\ cart' = IF calls[c].existing_item
               THEN Increment(cart, calls[c].user_id, calls[c].product_id, calls[c].quantity)
               ELSE InsertLine(cart, calls[c].user_id, calls[c].product_id, calls[c].quantity)
    /\ resp' = [op |-> "add_to_cart", code |-> 200]
    /\ calls' = [calls EXCEPT ![c] = Idle]
    /\ UNCHANGED <<products, users, providers, vehicles, orders, shipments, routes, now, everDelivered>>

\* add_to_cart requests of the users, one database call at a time.
NextCart ==
    \/ \E c \in DOMAIN calls, u \in Ids(users), p \in IdInputs(products), q \in CartQuantities :
          CartFind(c, u, p, q)
    \/ \E c \in DOMAIN calls : CartWrite(c)

SpecCart == InitRace /\ [][NextCart]_vars

\* A customer fills a cart and orders, each request run whole; some orders
\* name a product that is not in the catalogue.
NextCheckout ==
    \/ \E u \in Ids(users), p \in IdInputs(products), q \in CartQuantities : AddToCart(u, p, q)
    \/ \E u \in Ids(users), items \in {OrderItems, MissingItems} :
          CreateOrder(u, items, MinDistance, FreshTrackingNumber)
    \/ \E id \in Ids(shipments), st \in StatusInputs, n \in NotesInputs :
          UpdateShipmentStatus(id, st, n)

SpecCheckout == Init /\ [][NextCheckout]_vars

-----------------------------------------------------------------------------
(* Properties of the estimator, checked under SpecEst. *)

Estimated == resp.op = "estimate"

ActiveSet == {i \in DOMAIN providers : providers[i].active}

\* The position in the provider list of the provider the estimate names.
SelectedIndex == CHOOSE i \in DOMAIN providers : providers[i].id = resp.result.provider_id

PreWeightCost(i) == providers[i].base_cost + providers[i].cost_per_km * resp.distance

ExpectedSurcharge ==
    LET W == SumQuantities(resp.items)
    IN  IF W > 5 THEN (W - 5) * Money(10) ELSE 0

\* C8: with at least one active provider, the estimate names an active
\* provider whose base_cost + cost_per_km * d is the least among the active
\* ones, and among those that attain the least, the first in the list; with
\* A(80, 2.5), B(40, 1.5), C(150, 5.0) all active at d = 20 it names B.
C8_CheapestFirstWins ==
    (Estimated /\ ActiveSet # {}) =>
        /\ \E i \in ActiveSet : providers[i].id = resp.result.provider_id
        /\ \A j \in ActiveSet :
              /\ PreWeightCost(SelectedIndex) <= PreWeightCost(j)
              /\ PreWeightCost(SelectedIndex) = PreWeightCost(j) => SelectedIndex <= j
        /\ ( /\ resp.distance = 20
             /\ Len(providers) = 3
             /\ {providers[i].name : i \in ActiveSet} = {"A", "B", "C"} )
           => resp.result.provider_name = "B"

\* Two active providers attain the least cost and the earlier one is named.
C8_Witness ==
    /\ Estimated
    /\ \E i, j \in ActiveSet :
          /\ i < j
          /\ PreWeightCost(i) = PreWeightCost(j)
          /\ \A k \in ActiveSet : PreWeightCost(i) <= PreWeightCost(k)
          /\ resp.result.provider_id = providers[i].id

\* C9: the cost before rounding is the selected provider's base_cost +
\* cost_per_km * d, plus (W - 5) * 10 exactly when the total quantity W
\* exceeds 5; whatever W is, the selected provider is one of least
\* base_cost + cost_per_km * d, and the returned cost is that sum rounded.
C9_CostFormula ==
    (Estimated /\ ActiveSet # {}) =>
        /\ resp.raw_cost = PreWeightCost(SelectedIndex) + ExpectedSurcharge
        /\ resp.result.cost = Round2(resp.raw_cost)
        /\ \A j \in ActiveSet : PreWeightCost(SelectedIndex) <= PreWeightCost(j)

\* A cart of total quantity 8 pays 30 on top of the distance cost.
C9_Witness ==
    /\ Estimated
    /\ ActiveSet # {}
    /\ SumQuantities(resp.items) = 8
    /\ resp.raw_cost = PreWeightCost(SelectedIndex) + Money(30)

\* C10: with no active provider (none at all, or all deactivated) the
\* estimate is the fixed fallback, whatever the cart and the distance drawn:
\* provider_id null, cost 50.0, estimated_days 3, "Standard Delivery".
C10_Fallback ==
    (Estimated /\ ActiveSet = {}) =>
        resp.result = [provider_id |-> None, cost |-> Money(50), estimated_days |-> 3,
                       provider_name |-> "Standard Delivery"]

\* Providers exist, all deactivated, a heavy cart: the fallback is returned.
C10_Witness ==
    /\ Estimated
    /\ providers # <<>>
    /\ ActiveSet = {}
    /\ SumQuantities(resp.items) > 5
    /\ resp.result.provider_id = None
    /\ resp.result.cost = Money(50)

-----------------------------------------------------------------------------
(* Properties of routes and shipments, checked under Spec.  A property of   *)
(* one request is stated of the handler's outcome in every reachable state *)
(* and for every request the model sends: the variables are the state      *)
(* before the request, the outcome the response and the state after it.    *)

RouteRequests == IdInputs(vehicles) \X SeqsUpTo(IdInputs(shipments), MaxRouteLen)

MissingListed(ids) == \E k \in DOMAIN ids : ids[k] \notin Ids(shipments)

IneligibleListed(ids) ==
    \E k \in DOMAIN ids, i \in DOMAIN shipments :
        /\ shipments[i].id = ids[k]
        /\ shipments[i].status \notin {"pending", "assigned"}

OrderOf(order_id) == orders[CHOOSE i \in DOMAIN orders : orders[i].id = order_id]

LastResponse(op, code) == resp.op = op /\ resp.code = code

\* C1: createRoute with a vehicle id that does not resolve, or a listed
\* shipment id that does not resolve, or a listed shipment whose status is
\* neither pending nor assigned, fails: 404 only when the vehicle or a listed
\* shipment is missing, 400 only when a listed shipment is ineligible; and
\* the routes and the shipments are afterwards what they were.
C1_RouteAllOrNothing ==
    \A rq \in RouteRequests :
        (rq[1] \notin Ids(vehicles) \/ MissingListed(rq[2]) \/ IneligibleListed(rq[2]))
        => LET out == create_delivery_route(rq[1], rq[2])
           IN  /\ out.code \in {404, 400}
               /\ out.code = 404 => (rq[1] \notin Ids(vehicles) \/ MissingListed(rq[2]))
               /\ out.code = 400 => IneligibleListed(rq[2])
               /\ out.routes = routes
               /\ out.shipments = shipments

\* A route request was refused for an ineligible shipment: there is still no
\* route, and the returned shipment is as it was, without a vehicle.
C1_Witness ==
    /\ LastResponse("create_delivery_route", 400)
    /\ routes = <<>>
    /\ \E i \in DOMAIN shipments :
          shipments[i].status = "returned" /\ shipments[i].vehicle_id = None

\* C2: a createRoute that succeeds adds one route, planned, with the
\* request's vehicle and shipment list, and leaves the other routes alone;
\* every listed shipment, pending or assigned before, is then assigned to
\* that vehicle with nothing else of it changed, and the shipments not
\* listed are unchanged.
C2_RouteCreated ==
    \A rq \in RouteRequests :
        LET out == create_delivery_route(rq[1], rq[2])
            last == Len(out.routes)
        IN  out.code = 200 =>
               /\ last = Len(routes) + 1
               /\ SubSeq(out.routes, 1, Len(routes)) = routes
               /\ out.routes[last].route_status = "planned"
               /\ out.routes[last].vehicle_id = rq[1]
               /\ out.routes[last].shipments = rq[2]
               /\ out.routes[last].id \notin Ids(routes)
               /\ DOMAIN out.shipments = DOMAIN shipments
               /\ \A i \in DOMAIN shipments :
                     IF shipments[i].id \in Range(rq[2])
                     THEN /\ shipments[i].status \in {"pending", "assigned"}
                          /\ out.shipments[i] = [shipments[i] EXCEPT !.status = "assigned",
                                                                     !.vehicle_id = rq[1]]
                     ELSE out.shipments[i] = shipments[i]

\* A route was created over two shipments: one was never delivered, one has
\* been delivered and set back to assigned by an administrator; both are now
\* assigned to the route's vehicle.
C2_Witness ==
    /\ LastResponse("create_delivery_route", 200)
    /\ routes # <<>>
    /\ \E i, j \in DOMAIN shipments :
          /\ i # j
          /\ {shipments[i].id, shipments[j].id} = Range(routes[Len(routes)].shipments)
          /\ shipments[i].actual_delivery = None
          /\ shipments[j].actual_delivery # None
          /\ \A k \in {i, j} : /\ shipments[k].status = "assigned"
                              /\ shipments[k].vehicle_id = routes[Len(routes)].vehicle_id

\* C3: an updateRouteStatus to in_progress that succeeds leaves every
\* shipment of the route's list in_transit, whatever its status was, changes
\* nothing else of it, and leaves the shipments outside the route unchanged.
C3_RouteStartCascade ==
    \A r \in IdInputs(routes) :
        LET out == update_route_status(r, "in_progress")
        IN  out.code = 200 =>
               /\ r \in Ids(routes)
               /\ DOMAIN out.shipments = DOMAIN shipments
               /\ \A i \in DOMAIN shipments :
                     IF \E k \in DOMAIN routes :
                           routes[k].id = r /\ shipments[i].id \in Range(routes[k].shipments)
                     THEN out.shipments[i] = [shipments[i] EXCEPT !.status = "in_transit"]
                     ELSE out.shipments[i] = shipments[i]

\* A route was started: a shipment of it that had been delivered is in
\* transit, and a shipment outside the route is still returned.
C3_Witness ==
    /\ LastResponse("update_route_status", 200)
    /\ \E k \in DOMAIN routes, i, j \in DOMAIN shipments :
          /\ routes[k].route_status = "in_progress"
          /\ shipments[i].id \in Range(routes[k].shipments)
          /\ shipments[i].status = "in_transit"
          /\ shipments[i].actual_delivery # None
          /\ shipments[j].id \notin Range(routes[k].shipments)
          /\ shipments[j].status = "returned"

\* C4: an updateStatus to delivered that succeeds leaves the shipment
\* delivered with a delivery time, and its order delivered.
C4_DeliveredCascade ==
    \A id \in IdInputs(shipments), n \in NotesInputs :
        LET out == update_shipment_status(id, "delivered", n)
        IN  out.code = 200 =>
               /\ id \in Ids(shipments)
               /\ \E i \in DOMAIN out.shipments :
                     /\ out.shipments[i].id = id
                     /\ out.shipments[i].status = "delivered"
                     /\ out.shipments[i].actual_delivery # None
                     /\ \E o \in DOMAIN out.orders :
                           /\ out.orders[o].id = out.shipments[i].order_id
                           /\ out.orders[o].status = "delivered"

\* A shipment was just delivered and its order is delivered, while another
\* order is still confirmed.
C4_Witness ==
    /\ LastResponse("update_shipment_status", 200)
    /\ \E i \in DOMAIN shipments :
          /\ shipments[i].status = "delivered"
          /\ shipments[i].actual_delivery # None
          /\ OrderOf(shipments[i].order_id).status = "delivered"
    /\ \E o \in DOMAIN orders : orders[o].status = "confirmed"

\* C5 as stated: an updateStatus of an existing shipment to a status other
\* than delivered leaves its actual_delivery null and every order unchanged.
C5_LeavesDeliveryNull ==
    \A id \in Ids(shipments), s \in StatusInputs \ {"delivered"}, n \in NotesInputs :
        LET out == update_shipment_status(id, s, n)
        IN  /\ \A i \in DOMAIN out.shipments :
                  out.shipments[i].id = id => out.shipments[i].actual_delivery = None
            /\ out.orders = orders

\* C5 amended: an updateStatus of an existing shipment to a status other than
\* delivered leaves its actual_delivery as it was (null if the shipment was
\* never delivered, the delivery time if it was) and every order unchanged.
C5_LeavesDeliveryUnchanged ==
    \A id \in Ids(shipments), s \in StatusInputs \ {"delivered"}, n \in NotesInputs :
        LET out == update_shipment_status(id, s, n)
        IN  /\ DOMAIN out.shipments = DOMAIN shipments
            /\ \A i \in DOMAIN shipments :
                  /\ out.shipments[i].actual_delivery = shipments[i].actual_delivery
                  /\ shipments[i].id = id => out.shipments[i].status = s
            /\ out.orders = orders

\* A delivered shipment was set to returned: it keeps its delivery time and
\* its order stays delivered.
C5_Witness ==
    /\ LastResponse("update_shipment_status", 200)
    /\ \E i \in DOMAIN shipments :
          /\ shipments[i].status = "returned"
          /\ shipments[i].actual_delivery # None
          /\ OrderOf(shipments[i].order_id).status = "delivered"

\* C6: a shipment has a delivery time if and only if its status was set to
\* delivered at some point.
C6_DeliveryTimeIffDelivered ==
    \A i \in DOMAIN shipments :
        shipments[i].actual_delivery # None <=> shipments[i].id \in everDelivered

\* One shipment was delivered and is now assigned again, with its delivery
\* time; another was never delivered and has none.
C6_Witness ==
    \E i, j \in DOMAIN shipments :
        /\ shipments[i].id \in everDelivered
        /\ shipments[i].status = "assigned"
        /\ shipments[i].actual_delivery # None
        /\ shipments[j].id \notin everDelivered
        /\ shipments[j].status = "returned"
        /\ shipments[j].actual_delivery = None

\* C7, checked under SpecTrack: no two shipments have the same tracking
\* number.
C7_TrackingNumbersUnique ==
    \A i, j \in DOMAIN shipments :
        i # j => shipments[i].tracking_number # shipments[j].tracking_number

-----------------------------------------------------------------------------
(* Order placement and the failures of the status updates, under Spec. *)

OrderRequests == {MinDistance, MaxDistance} \X TrackingNumbers

\* C11: a create_order that succeeds adds one order; if a provider is active
\* (the estimator selects one) it adds exactly one shipment for that order,
\* pending, with the selected provider, and the order is confirmed; if none
\* is active it adds no shipment and the order is pending.
C11_OrderGetsShipment ==
    \A rq \in OrderRequests :
        LET out == create_order(Customer, OrderItems, rq[1], rq[2])
            selected == calculate_transportation_cost(providers, OrderItems, rq[1]).provider_id
            order == out.orders[Len(out.orders)]
            mine == {i \in DOMAIN out.shipments : out.shipments[i].order_id = order.id}
        IN  out.code = 200 =>
               /\ Len(out.orders) = Len(orders) + 1
               /\ SubSeq(out.orders, 1, Len(orders)) = orders
               /\ order.id \notin Ids(orders)
               /\ SubSeq(out.shipments, 1, Len(shipments)) = shipments
               /\ IF \E p \in DOMAIN providers : providers[p].active
                  THEN /\ selected \in {providers[p].id : p \in {q \in DOMAIN providers : providers[q].active}}
                       /\ Cardinality(mine) = 1
                       /\ \A i \in mine : /\ i \notin DOMAIN shipments
                                          /\ out.shipments[i].provider_id = selected
                                          /\ out.shipments[i].status = "pending"
                       /\ order.status = "confirmed"
                  ELSE /\ mine = {}
                       /\ out.shipments = shipments
                       /\ order.status = "pending"

\* An order was just placed: one order is confirmed and has its shipment,
\* another, placed with no active provider, is pending and has none.
C11_Witness ==
    /\ LastResponse("create_order", 200)
    /\ \E o \in DOMAIN orders :
          /\ orders[o].status = "confirmed"
          /\ \E i \in DOMAIN shipments : shipments[i].order_id = orders[o].id
    /\ \E o \in DOMAIN orders :
          /\ orders[o].status = "pending"
          /\ \A i \in DOMAIN shipments : shipments[i].order_id # orders[o].id

\* C12: updateRouteStatus with a status outside planned / in_progress /
\* completed answers 400, whether or not the route exists; with a valid
\* status and an unknown route it answers 404; in both cases the routes and
\* the shipments are what they were.
C12_RouteStatusFailures ==
    \A r \in IdInputs(routes), s \in RouteStatusInputs :
        LET out == update_route_status(r, s)
            valid == s \in {"planned", "in_progress", "completed"}
        IN  /\ ~valid => out.code = 400
            /\ (valid /\ r \notin Ids(routes)) => out.code = 404
            /\ (~valid \/ r \notin Ids(routes)) => /\ out.routes = routes
                                                   /\ out.shipments = shipments

\* A route status outside the valid set was refused while a planned route
\* with an assigned shipment exists.
C12_Witness ==
    /\ LastResponse("update_route_status", 400)
    /\ \E k \in DOMAIN routes, i \in DOMAIN shipments :
          /\ routes[k].route_status = "planned"
          /\ shipments[i].id \in Range(routes[k].shipments)
          /\ shipments[i].status = "assigned"

\* C13: updateStatus on an id that resolves to no shipment answers 404 and
\* leaves every shipment and every order as it was, for delivered as well.
C13_UnknownShipment ==
    \A s \in StatusInputs, n \in NotesInputs :
        LET out == update_shipment_status(NoSuchId, s, n)
        IN  /\ out.code = 404
            /\ out.shipments = shipments
            /\ out.orders = orders

\* An update of an unknown shipment was refused while a confirmed order with
\* a pending shipment exists.
C13_Witness ==
    /\ LastResponse("update_shipment_status", 404)
    /\ \E i \in DOMAIN shipments :
          /\ shipments[i].status = "pending"
          /\ OrderOf(shipments[i].order_id).status = "confirmed"

\* C19: every shipment's order_id is the id of an order, and no order is
\* referenced by two shipments.
C19_ShipmentOrderOneToOne ==
    /\ \A i \in DOMAIN shipments : shipments[i].order_id \in Ids(orders)
    /\ \A i, j \in DOMAIN shipments :
          shipments[i].order_id = shipments[j].order_id => i = j

\* Two orders have a shipment each, and one of the shipments was delivered.
C19_Witness ==
    /\ Len(orders) = 2
    /\ \E i, j \in DOMAIN shipments :
          /\ shipments[i].order_id = orders[1].id
          /\ shipments[j].order_id = orders[2].id
          /\ shipments[i].status = "delivered"

-----------------------------------------------------------------------------
(* Properties of interleaved handlers, checked under SpecRace. *)

\* C14, checked under SpecRace: every shipment id is in the shipments list
\* of at most one delivery route.
C14_ShipmentInOneRoute ==
    \A i \in DOMAIN shipments :
        Cardinality({k \in DOMAIN routes : shipments[i].id \in Range(routes[k].shipments)}) <= 1

\* C15, checked under SpecRace: a shipment is never inserted with a
\* provider that is not active at the moment of the insert.
C15_NoShipmentForInactiveProvider ==
    [][Len(shipments') > Len(shipments) =>
          \E p \in DOMAIN providers :
              /\ providers[p].id = shipments'[Len(shipments')].provider_id
              /\ providers[p].active]_vars

-----------------------------------------------------------------------------
(* Properties of administration, checked under SpecAdmin. *)

IsAdmin(user_id) ==
    \E i \in DOMAIN users : users[i].id = user_id /\ users[i].role = "admin"

\* C16: a request to a handler under /api/admin by a caller whose user
\* record is missing or whose role is not admin is answered 403 and leaves
\* every collection as it was.
C16_AdminGuard ==
    [][\A user_id \in Callers :
          (~IsAdmin(user_id) /\ AdminRequests(user_id))
          => /\ resp'.code = 403
             /\ UNCHANGED <<products, cart, users, providers, vehicles, orders, shipments, routes>>]_vars

\* A customer's shipment status update was refused while a pending shipment
\* with a vehicle exists, which an administrator's update would have changed.
C16_Witness ==
    /\ LastResponse("update_shipment_status", 403)
    /\ \E i \in DOMAIN shipments :
          /\ shipments[i].status = "pending"
          /\ shipments[i].vehicle_id # None
          /\ OrderOf(shipments[i].order_id).status = "confirmed"

\* C20, checked under SpecAdmin: every vehicle's provider_id is the id of a
\* provider.
C20_VehicleProviderExists ==
    \A v \in DOMAIN vehicles : vehicles[v].provider_id \in Ids(providers)

-----------------------------------------------------------------------------
(* Properties of the customer's reads, checked under SpecCustomer. *)

\* C17, checked under SpecCustomer: track answers 404 for a tracking number
\* that no shipment has, and otherwise returns the shipment with its order,
\* provider and vehicle, each None when the reference does not resolve.
C17_TrackReturnsJoin ==
    \A t \in TrackingNumbers :
        LET out == track_shipment(t)
            having == {i \in DOMAIN shipments : shipments[i].tracking_number = t}
        IN  IF having = {}
            THEN out.code = 404
            ELSE /\ out.code = 200
                 /\ \E i \in having :
                       /\ out.shipment = shipments[i]
                       /\ out.order = Lookup(orders, shipments[i].order_id)
                       /\ out.provider = Lookup(providers, shipments[i].provider_id)
                       /\ out.vehicle = Lookup(vehicles, shipments[i].vehicle_id)

\* C18: get_order_shipment returns a shipment to a caller only if the order
\* exists and is the caller's, and the shipment is that order's; for an order
\* of another user it answers exactly as for an order that does not exist,
\* 404 "Order not found", with no shipment, provider or vehicle.
C18_OwnOrderOnly ==
    \A o \in IdInputs(orders), u \in Callers :
        LET out == get_order_shipment(o, u)
            owned == \E k \in DOMAIN orders : orders[k].id = o /\ orders[k].user_id = u
        IN  /\ out.shipment # NoDocument => (owned /\ out.shipment.order_id = o)
            /\ out.code = 200 => out.shipment # NoDocument
            /\ ~owned => out = get_order_shipment(NoSuchId, u)
            /\ ~owned => /\ out.code = 404
                         /\ out.detail = "Order not found"
                         /\ out.shipment = NoDocument
                         /\ out.provider = NoDocument
                         /\ out.vehicle = NoDocument

\* A user asked for the shipment of another user's order, which has a
\* shipment that its owner can read, and was answered 404.
C18_Witness ==
    /\ LastResponse("get_order_shipment", 404)
    /\ \E k \in DOMAIN orders :
          /\ orders[k].id = resp.order_id
          /\ orders[k].user_id # resp.user_id
          /\ resp.user_id \in Ids(users)
          /\ get_order_shipment(orders[k].id, orders[k].user_id).code = 200

\* C21, checked under SpecAdmin: a delete of a known provider or vehicle
\* answers 200, sets active to false on that record and changes nothing else
\* of the collection; a delete of an unknown id answers 404 and changes
\* nothing; and no request removes a provider or a vehicle.
C21_SoftDeleteOnly ==
    [][/\ Ids(providers) \subseteq Ids(providers')
       /\ Ids(vehicles) \subseteq Ids(vehicles')
       /\ \A id \in IdInputs(providers) :
             delete_transportation_provider(id) =>
                IF id \in Ids(providers)
                THEN /\ resp'.code = 200
                     /\ DOMAIN providers' = DOMAIN providers
                     /\ \A i \in DOMAIN providers :
                           providers'[i] = IF providers[i].id = id
                                           THEN [providers[i] EXCEPT !.active = FALSE]
                                           ELSE providers[i]
                ELSE resp'.code = 404 /\ providers' = providers
       /\ \A id \in IdInputs(vehicles) :
             delete_vehicle(id) =>
                IF id \in Ids(vehicles)
                THEN /\ resp'.code = 200
                     /\ DOMAIN vehicles' = DOMAIN vehicles
                     /\ \A i \in DOMAIN vehicles :
                           vehicles'[i] = IF vehicles[i].id = id
                                          THEN [vehicles[i] EXCEPT !.active = FALSE]
                                          ELSE vehicles[i]
                ELSE resp'.code = 404 /\ vehicles' = vehicles]_vars

\* A provider was just deleted: its record is still there, inactive, and a
\* vehicle and a shipment still refer to it.
C21_Witness ==
    /\ LastResponse("delete_transportation_provider", 200)
    /\ \E p \in DOMAIN providers, v \in DOMAIN vehicles, i \in DOMAIN shipments :
          /\ ~providers[p].active
          /\ providers[p].name = "B"
          /\ vehicles[v].provider_id = providers[p].id
          /\ shipments[i].provider_id = providers[p].id

-----------------------------------------------------------------------------
(* Properties over time, checked under SpecClock. *)

\* C22, checked under SpecClock: once a shipment's actual_delivery is set,
\* no later request changes it.
C22_DeliverySetOnce ==
    [][\A i \in DOMAIN shipments :
          shipments[i].actual_delivery # None
          => shipments'[i].actual_delivery = shipments[i].actual_delivery]_vars

\* C23, checked under Spec: a route is created planned, its route_status is
\* always planned, in_progress or completed, and a request changes it only
\* from planned to in_progress or from in_progress to completed.
C23_RouteStateMachine ==
    [][/\ \A k \in DOMAIN routes' : routes'[k].route_status \in RouteStatuses
       /\ \A k \in DOMAIN routes' \ DOMAIN routes : routes'[k].route_status = "planned"
       /\ \A k \in DOMAIN routes :
             \/ routes'[k].route_status = routes[k].route_status
             \/ <<routes[k].route_status, routes'[k].route_status>>
                   \in {<<"planned", "in_progress">>, <<"in_progress", "completed">>}]_vars

\* C24, checked under Spec: for every shipment in the store and every status
\* and notes of the request, update_shipment_status answers 200 and leaves
\* the shipment with that status and those notes.
C24_UpdateStatusUnconditional ==
    \A id \in Ids(shipments), s \in StatusInputs, n \in NotesInputs :
        LET out == update_shipment_status(id, s, n)
        IN  /\ out.code = 200
            /\ FindById(out.shipments, id).status = s
            /\ FindById(out.shipments, id).delivery_notes = n

\* C25, checked under Spec: a successful update of a route to completed or
\* to planned changes the route_status of that route and nothing else: the
\* other routes, every shipment and every order stay as they were.
C25_RouteUpdateNoCascade ==
    [][\A r \in Ids(routes), s \in {"completed", "planned"} :
          UpdateRouteStatus(r, s) =>
             /\ resp'.code = 200
             /\ shipments' = shipments
             /\ orders' = orders
             /\ DOMAIN routes' = DOMAIN routes
             /\ \A k \in DOMAIN routes :
                   routes'[k] = IF routes[k].id = r
                                THEN [routes[k] EXCEPT !.route_status = s]
                                ELSE routes[k]]_vars

\* A route was just completed while a shipment it lists is still assigned to
\* its vehicle, undelivered.
C25_Witness ==
    /\ LastResponse("update_route_status", 200)
    /\ \E k \in DOMAIN routes, i \in DOMAIN shipments :
          /\ routes[k].route_status = "completed"
          /\ shipments[i].id \in Range(routes[k].shipments)
          /\ shipments[i].status = "assigned"
          /\ shipments[i].actual_delivery = None

\* C26, checked under Spec: no request removes a shipment or changes its id,
\* order_id, provider_id, tracking_number, estimated_delivery or created_at,
\* and only a successful create_delivery_route changes its vehicle_id.
C26_ShipmentIdentityFixed ==
    [][/\ Len(shipments') >= Len(shipments)
       /\ \A i \in DOMAIN shipments :
             /\ shipments'[i].id = shipments[i].id
             /\ shipments'[i].order_id = shipments[i].order_id
             /\ shipments'[i].provider_id = shipments[i].provider_id
             /\ shipments'[i].tracking_number = shipments[i].tracking_number
             /\ shipments'[i].estimated_delivery = shipments[i].estimated_delivery
             /\ shipments'[i].created_at = shipments[i].created_at
             /\ shipments'[i].vehicle_id # shipments[i].vehicle_id
                   => resp' = [op |-> "create_delivery_route", code |-> 200]]_vars

\* A shipment created without a vehicle was put on a route, which gave it the
\* route's vehicle, and was then returned.
C26_Witness ==
    /\ LastResponse("update_shipment_status", 500) \/ LastResponse("update_shipment_status", 200)
    /\ \E k \in DOMAIN routes, i \in DOMAIN shipments, v \in DOMAIN vehicles :
          /\ shipments[i].id \in Range(routes[k].shipments)
          /\ shipments[i].vehicle_id = routes[k].vehicle_id
          /\ vehicles[v].id = routes[k].vehicle_id
          /\ ~vehicles[v].active
          /\ shipments[i].status = "returned"
          /\ shipments[i].tracking_number \in TrackingNumbers

\* C27, checked under SpecAdmin: a shipment bound to a vehicle is bound to a
\* vehicle of the store, and that vehicle belongs to the shipment's provider.
C27_VehicleOfOwnProvider ==
    \A i \in DOMAIN shipments :
        shipments[i].vehicle_id # None =>
            /\ Exists(vehicles, shipments[i].vehicle_id)
            /\ FindById(vehicles, shipments[i].vehicle_id).provider_id = shipments[i].provider_id

-----------------------------------------------------------------------------
(* Interleaved requests, checked under SpecCascade and SpecCart. *)

\* C28, checked under SpecCascade: when no request is in flight, the order
\* of every delivered shipment is delivered.
C28_CascadeNotLost ==
    (\A c \in DOMAIN calls : calls[c] = Idle) =>
        \A i \in DOMAIN shipments :
            shipments[i].status = "delivered" =>
                FindById(orders, shipments[i].order_id).status = "delivered"

\* C29, checked under SpecCart: the cart has at most one line for a user and
\* a product, and a completed add_to_cart raises the quantity of that line
\* by the quantity it adds.
C29_OneCartLine ==
    [][/\ \A u \in Ids(users), p \in Ids(products) : Cardinality(CartLines(cart', u, p)) <= 1
       /\ \A c \in DOMAIN calls :
             CartWrite(c) =>
                CartQuantity(cart', calls[c].user_id, calls[c].product_id)
                   = CartQuantity(cart, calls[c].user_id, calls[c].product_id) + calls[c].quantity]_vars

-----------------------------------------------------------------------------
(* Orders for products that are gone, checked under SpecCheckout. *)

\* The item lists of a request in which some product is not in the catalogue.
MissingItemInputs ==
    {items \in SeqsUpTo({[product_id |-> p, quantity |-> 1] : p \in IdInputs(products)}, 2) :
        \E k \in DOMAIN items : items[k].product_id \notin Ids(products)}

\* C30, checked under SpecCheckout: create_order by a user of the store for
\* items of which some product does not exist answers 404 and leaves the
\* orders, the shipments and the cart as they were.
C30_MissingProductPersistsNothing ==
    \A u \in Ids(users), items \in MissingItemInputs, d \in {MinDistance, MaxDistance} :
        LET out == create_order(u, items, d, FreshTrackingNumber)
        IN  /\ out.code = 404
            /\ out.orders = orders
            /\ out.shipments = shipments
            /\ out.cart = cart

\* An order for a missing product was just refused while every user has a
\* line in the cart and an earlier order with its shipment is in the store.
C30_Witness ==
    /\ LastResponse("create_order", 404)
    /\ \A u \in Ids(users) : CartLines(cart, u, 1) # {}
    /\ orders # <<>>
    /\ shipments # <<>>

=============================================================================
